---- MODULE Spec2Model ----
(***************************************************************************)
(* Model of lib/util/npm-util.js: findPackageJson (the ascent that locates *)
(* the closest package.json), check / checkDeps / checkDevDeps (the        *)
(* dependency query) and installSyncSaveDev (the npm invocation).          *)
(*                                                                         *)
(* A directory is the sequence of its path components (the root is <<>>),  *)
(* a file path is a directory followed by the file name.  A package name   *)
(* and a shell command are sequences of characters, so that joining names  *)
(* into a command line is a computation and not the identity.              *)
(***************************************************************************)
EXTENDS Integers, Sequences, FiniteSets, TLC

VARIABLES
    fs,        \* the filesystem: file path -> content, for the existing package.json files
    cwd,       \* process.cwd()
    pc,        \* position of the call in progress: idle, body, while, found, done
    call,      \* the public function called and its arguments
    dir,       \* findPackageJson: local variable dir
    pkgJson,   \* check: local variable pkgJson (what findPackageJson returned)
    tested,    \* the paths given to fs.existsSync by the call in progress, in order
    reads,     \* the paths given to fs.readFileSync by the call in progress, in order
    execLog,   \* the commands given to shell.execSync by the call in progress, in order
    result,    \* how the call ended: value returned or error thrown
    prevLoc    \* what findPackageJson returned to the previous call of check (null: none)

vars == <<fs, cwd, pc, call, dir, pkgJson, tested, reads, execLog, result, prevLoc>>

----------------------------------------------------------------------------
(* Bounds of the model *)

MaxDepth == 3
MaxFiles == 2
MaxPkgs == 2

----------------------------------------------------------------------------
(* The universe: directories, package names, manifests *)

DirName == "a"
Dirs == UNION {[1..n -> {DirName}] : n \in 0..MaxDepth}
root == <<>>

foo == <<"f", "o", "o">>
bar == <<"b", "a", "r">>
PkgNames == {foo, bar}
PkgLists == UNION {[1..n -> PkgNames] : n \in 0..MaxPkgs}

EmptyObject == [k \in {} |-> <<>>]
\* the text of a package.json: whether JSON.parse accepts it, and the object it denotes
\* (field name -> keys of the field, in document order)
Manifests ==
    { [parses |-> FALSE, json |-> EmptyObject],
      [parses |-> TRUE, json |-> EmptyObject],
      [parses |-> TRUE, json |-> [devDependencies |-> <<foo>>]],
      [parses |-> TRUE, json |-> [dependencies |-> <<foo>>]],
      [parses |-> TRUE, json |-> [dependencies |-> <<foo>>, devDependencies |-> <<bar>>]] }

null == <<"null">>

----------------------------------------------------------------------------
(* path, fs, JSON, Object, Array *)

pathJoin(d, seg) ==
    IF seg = ".."
    THEN (IF d = root THEN root ELSE SubSeq(d, 1, Len(d) - 1))
    ELSE Append(d, seg)

pathResolve(d, seg) ==
    IF seg = ".."
    THEN (IF d = root THEN root ELSE SubSeq(d, 1, Len(d) - 1))
    ELSE Append(d, seg)

existsSync(fsys, p) == p \in DOMAIN fsys

ManifestPaths == {pathJoin(d, "package.json") : d \in Dirs}
FsStates ==
    UNION {[S -> Manifests] : S \in {T \in SUBSET ManifestPaths : Cardinality(T) <= MaxFiles}}

Return(v) == [threw |-> "", value |-> v]
Throw(e) == [threw |-> e, value |-> <<>>]
Pending == [threw |-> "pending", value |-> <<>>]

readFileSync(fsys, p) ==
    IF p = null THEN Throw("TypeError")
    ELSE IF p \in DOMAIN fsys THEN Return(fsys[p])
    ELSE Throw("ENOENT")

JSONparse(text) ==
    IF text.parses THEN Return(text.json) ELSE Throw("SyntaxError")

ObjectKeys(obj, field) ==
    IF field \in DOMAIN obj THEN Return(obj[field]) ELSE Throw("TypeError")

indexOf(arr, x) ==
    IF \E i \in 1..Len(arr) : arr[i] = x
    THEN (CHOOSE i \in 1..Len(arr) : arr[i] = x /\ \A j \in 1..(i - 1) : arr[j] # x) - 1
    ELSE -1

RECURSIVE arrayJoin(_, _)
arrayJoin(arr, sep) ==
    IF arr = <<>> THEN <<>>
    ELSE IF Len(arr) = 1 THEN arr[1]
    ELSE arr[1] \o sep \o arrayJoin(Tail(arr), sep)

----------------------------------------------------------------------------
(* Arguments of the public functions *)

Arr(items) == [isArray |-> TRUE, items |-> items, str |-> <<>>]
Str(s) == [isArray |-> FALSE, items |-> <<>>, str |-> s]
InstallArgs == {Arr(l) : l \in PkgLists} \cup {Str(s) : s \in PkgNames}

NoCall == [fn |-> "none", packages |-> Arr(<<>>),
           opt |-> [dependencies |-> FALSE, devDependencies |-> FALSE]]
CheckFns == {"checkDeps", "checkDevDeps"}

----------------------------------------------------------------------------
(* findPackageJson *)

\* a faulty variant of startDir: the ascent starts at the directory of the manifest the
\* previous call located, when there is one (a cached location)
startDirCached == IF prevLoc = null THEN cwd ELSE SubSeq(prevLoc, 1, Len(prevLoc) - 1)

\* line 30: path.resolve(startDir || process.cwd()), startDir being undefined in check
startDir == cwd

\* a faulty variant of LoopBody: line 34 is missing, dir is not moved to its parent
LoopBodyNoAscent ==
    /\ pc = "body"
    /\ LET pkgfile == pathJoin(dir, "package.json")
       IN /\ tested' = Append(tested, pkgfile)
          /\ IF ~existsSync(fs, pkgfile)
             THEN /\ pc' = "while"
                  /\ UNCHANGED <<dir, pkgJson>>
             ELSE /\ pkgJson' = pkgfile
                  /\ pc' = "found"
                  /\ UNCHANGED dir
    /\ UNCHANGED <<fs, cwd, call, reads, execLog, result, prevLoc>>

\* lines 31-37: one pass through the body of the do-while
LoopBody ==
    /\ pc = "body"
    /\ LET pkgfile == pathJoin(dir, "package.json")
       IN /\ tested' = Append(tested, pkgfile)
          /\ IF ~existsSync(fs, pkgfile)
             THEN /\ dir' = pathJoin(dir, "..")
                  /\ pc' = "while"
                  /\ UNCHANGED pkgJson
             ELSE /\ pkgJson' = pkgfile
                  /\ pc' = "found"
                  /\ UNCHANGED dir
    /\ UNCHANGED <<fs, cwd, call, reads, execLog, result, prevLoc>>

\* a faulty variant of LoopCond: line 39 returns the last path built instead of null
LoopCondReturnsPath ==
    /\ pc = "while"
    /\ IF dir # pathResolve(dir, "..")
       THEN /\ pc' = "body"
            /\ UNCHANGED pkgJson
       ELSE /\ pkgJson' = pathJoin(dir, "package.json")
            /\ pc' = "found"
    /\ UNCHANGED <<fs, cwd, call, dir, tested, reads, execLog, result, prevLoc>>

\* lines 38-39: the loop condition, and the return of null when it fails
LoopCond ==
    /\ pc = "while"
    /\ IF dir # pathResolve(dir, "..")
       THEN /\ pc' = "body"
            /\ UNCHANGED pkgJson
       ELSE /\ pkgJson' = null
            /\ pc' = "found"
    /\ UNCHANGED <<fs, cwd, call, dir, tested, reads, execLog, result, prevLoc>>

----------------------------------------------------------------------------
(* check, checkDeps, checkDevDeps *)

\* a faulty variant of isListed: the index is tested for being positive
isListedPositive(deps, pkg) == indexOf(deps, pkg) > 0

\* line 80: deps.indexOf(pkg) !== -1
isListed(deps, pkg) == indexOf(deps, pkg) # -1

\* lines 79-82: packages.reduce(function(status, pkg) {...}, {})
RECURSIVE reduceStatus(_, _, _)
reduceStatus(packages, deps, status) ==
    IF packages = <<>> THEN status
    ELSE LET pkg == Head(packages)
             next == [p \in DOMAIN status \cup {pkg} |->
                         IF p = pkg THEN isListed(deps, pkg) ELSE status[p]]
         IN reduceStatus(Tail(packages), deps, next)

\* lines 72-82: check, once a manifest path is at hand
checkManifest(fsys, found, packages, opt) ==
    LET text == readFileSync(fsys, found)
    IN IF text.threw # "" THEN text
       ELSE LET parsed == JSONparse(text.value)
            IN IF parsed.threw # "" THEN parsed
               ELSE LET fileJson == parsed.value
                        dev == IF opt.devDependencies
                               THEN ObjectKeys(fileJson, "devDependencies")
                               ELSE Return(<<>>)
                        dep == IF opt.dependencies
                               THEN ObjectKeys(fileJson, "dependencies")
                               ELSE Return(<<>>)
                    IN IF dev.threw # "" THEN dev
                       ELSE IF dep.threw # "" THEN dep
                       ELSE Return(reduceStatus(packages, dev.value \o dep.value,
                                                [p \in {} |-> FALSE]))

ManifestNotFound == "Error: Could not find a package.json file"

\* a faulty variant of check: the guard of lines 69-71 is missing
checkUnguarded(fsys, found, packages, opt) == checkManifest(fsys, found, packages, opt)

\* lines 69-82: check, from the value findPackageJson returned
check(fsys, found, packages, opt) ==
    IF found = null THEN Throw(ManifestNotFound)
    ELSE checkManifest(fsys, found, packages, opt)

\* lines 66-68 and 30: entry of check, up to the first pass of the ascent
Enter(fn, packages, opt) ==
    /\ pc = "idle"
    /\ call' = [fn |-> fn, packages |-> Arr(packages), opt |-> opt]
    /\ dir' = startDir
    /\ pkgJson' = null
    /\ pc' = "body"
    /\ UNCHANGED <<fs, cwd, tested, reads, execLog, result, prevLoc>>

checkDeps ==
    \E packages \in PkgLists :
        Enter("checkDeps", packages, [dependencies |-> TRUE, devDependencies |-> FALSE])

checkDevDeps ==
    \E packages \in PkgLists :
        Enter("checkDevDeps", packages, [dependencies |-> FALSE, devDependencies |-> TRUE])

\* lines 69-82 as one step: the call ends with a mapping or an error
CheckBody ==
    /\ pc = "found"
    /\ result' = check(fs, pkgJson, call.packages.items, call.opt)
    /\ reads' = IF pkgJson = null THEN reads ELSE Append(reads, pkgJson)
    /\ pc' = "done"
    /\ UNCHANGED <<fs, cwd, call, dir, pkgJson, tested, execLog, prevLoc>>

----------------------------------------------------------------------------
(* installSyncSaveDev *)

npmCmd == <<"n", "p", "m", " ", "i", " ", "-", "-", "s", "a", "v", "e", "-", "d", "e", "v", " ">>

\* a faulty variant of installCommand: join() with its default separator, the comma
installCommandComma(packages) ==
    npmCmd \o (IF packages.isArray THEN arrayJoin(packages.items, <<",">>) ELSE packages.str)

\* lines 52-55: the string given to shell.execSync
installCommand(packages) ==
    npmCmd \o (IF packages.isArray THEN arrayJoin(packages.items, <<" ">>) ELSE packages.str)

\* a faulty variant of installSyncSaveDev: it looks for a package.json in the working
\* directory before it runs npm
installSyncSaveDevProbing ==
    /\ pc = "idle"
    /\ \E packages \in InstallArgs, failed \in BOOLEAN :
          /\ call' = [NoCall EXCEPT !.fn = "installSyncSaveDev", !.packages = packages]
          /\ execLog' = Append(execLog, installCommand(packages))
          /\ result' = IF failed THEN Throw("ExecError") ELSE Return(<<>>)
    /\ tested' = Append(tested, pathJoin(cwd, "package.json"))
    /\ pc' = "done"
    /\ UNCHANGED <<fs, cwd, dir, pkgJson, reads, prevLoc>>

\* lines 51-56; execSync either returns or throws, and the function has no handler
installSyncSaveDev ==
    /\ pc = "idle"
    /\ \E packages \in InstallArgs, failed \in BOOLEAN :
          /\ call' = [NoCall EXCEPT !.fn = "installSyncSaveDev", !.packages = packages]
          /\ execLog' = Append(execLog, installCommand(packages))
          /\ result' = IF failed THEN Throw("ExecError") ELSE Return(<<>>)
    /\ pc' = "done"
    /\ UNCHANGED <<fs, cwd, dir, pkgJson, tested, reads, prevLoc>>

----------------------------------------------------------------------------
(* The caller and the environment *)

\* the call returns (or its error propagates) and its locals cease to exist
ReturnToCaller ==
    /\ pc = "done"
    /\ pc' = "idle"
    /\ prevLoc' = IF call.fn \in CheckFns THEN pkgJson ELSE prevLoc
    /\ call' = NoCall
    /\ dir' = root
    /\ pkgJson' = null
    /\ tested' = <<>>
    /\ reads' = <<>>
    /\ execLog' = <<>>
    /\ result' = Pending
    /\ UNCHANGED <<fs, cwd>>

CreateManifest ==
    /\ pc = "idle"
    /\ Cardinality(DOMAIN fs) < MaxFiles
    /\ \E p \in ManifestPaths \ DOMAIN fs, m \in Manifests :
          fs' = [q \in DOMAIN fs \cup {p} |-> IF q = p THEN m ELSE fs[q]]
    /\ UNCHANGED <<cwd, pc, call, dir, pkgJson, tested, reads, execLog, result, prevLoc>>

DeleteManifest ==
    /\ pc = "idle"
    /\ \E p \in DOMAIN fs : fs' = [q \in DOMAIN fs \ {p} |-> fs[q]]
    /\ UNCHANGED <<cwd, pc, call, dir, pkgJson, tested, reads, execLog, result, prevLoc>>

ChangeManifest ==
    /\ pc = "idle"
    /\ \E p \in DOMAIN fs :
          \E m \in Manifests \ {fs[p]} : fs' = [fs EXCEPT ![p] = m]
    /\ UNCHANGED <<cwd, pc, call, dir, pkgJson, tested, reads, execLog, result, prevLoc>>

Chdir ==
    /\ pc = "idle"
    /\ \E d \in Dirs \ {cwd} : cwd' = d
    /\ UNCHANGED <<fs, pc, call, dir, pkgJson, tested, reads, execLog, result, prevLoc>>

----------------------------------------------------------------------------
(* Specifications *)

Init ==
    /\ fs \in FsStates
    /\ cwd \in Dirs
    /\ pc = "idle"
    /\ call = NoCall
    /\ dir = root
    /\ pkgJson = null
    /\ prevLoc = null
    /\ tested = <<>>
    /\ reads = <<>>
    /\ execLog = <<>>
    /\ result = Pending

Next ==
    \/ checkDeps
    \/ checkDevDeps
    \/ LoopBody
    \/ LoopCond
    \/ CheckBody
    \/ installSyncSaveDev
    \/ ReturnToCaller
    \/ CreateManifest
    \/ DeleteManifest
    \/ ChangeManifest
    \/ Chdir

Spec == Init /\ [][Next]_vars

\* one call of checkDeps / checkDevDeps, from every filesystem and every working
\* directory (the environment acts between calls only, so it takes no part in a call)
NextCheck ==
    \/ checkDeps
    \/ checkDevDeps
    \/ LoopBody
    \/ LoopCond
    \/ CheckBody

\* a call is synchronous: once entered it runs to its end
FairSpec == Init /\ [][NextCheck]_vars /\ WF_vars(LoopBody \/ LoopCond \/ CheckBody)

----------------------------------------------------------------------------
(* Vocabulary of the properties *)

Range(seq) == {seq[i] : i \in 1..Len(seq)}
\* a directory and its ancestors, the root included
SelfAndAncestors(d) == {SubSeq(d, 1, n) : n \in 0..Len(d)}
manifestOf(d) == Append(d, "package.json")
HasManifest(d) == manifestOf(d) \in DOMAIN fs
ManifestAbove(d) == \E a \in SelfAndAncestors(d) : HasManifest(a)
\* the nearest directory with a package.json among the given ones
NearestOf(ds) ==
    CHOOSE a \in ds : manifestOf(a) \in DOMAIN fs
                      /\ \A b \in ds : manifestOf(b) \in DOMAIN fs => Len(b) <= Len(a)

InCheck == call.fn \in CheckFns
Returned == pc \in {"found", "done"}
SelectedFields == {f \in {"dependencies", "devDependencies"} : call.opt[f]}
Requested == Range(call.packages.items)
\* the call of check located a manifest that parses
ManifestParsed == InCheck /\ pc = "done" /\ pkgJson \in DOMAIN fs /\ fs[pkgJson].parses
AllFalse == [p \in Requested |-> FALSE]

----------------------------------------------------------------------------
(* C1 *)

\* C1: whenever a package.json exists in the start directory or in one of its ancestors,
\* the root included, findPackageJson returns the path of the one in the nearest such
\* directory; with the only package.json in the root and the start directory below the
\* root, it returns the root's package.json.
C1_NearestManifestReturned ==
    (InCheck /\ Returned /\ ManifestAbove(cwd))
        => pkgJson = manifestOf(NearestOf(SelfAndAncestors(cwd)))

----------------------------------------------------------------------------
(* C2 *)

\* C2: with no package.json in the start directory nor in any ancestor up to the root,
\* findPackageJson returns null without raising anything, and checkDeps / checkDevDeps
\* end with the "could not find a package.json" error and no mapping, whatever the
\* packages list.
C2_NoManifestIsAnError ==
    (InCheck /\ ~ManifestAbove(cwd))
        => /\ pc = "found" => (pkgJson = null /\ result = Pending)
           /\ pc = "done" => (result.threw = ManifestNotFound /\ result.value = <<>>)

C2_Witness ==
    /\ InCheck /\ pc = "done" /\ ~ManifestAbove(cwd)
    /\ cwd # root /\ call.packages.items # <<>>
    /\ result.threw = ManifestNotFound

----------------------------------------------------------------------------
(* C3 *)

\* C3: a field selected by the options and absent from the manifest counts as empty:
\* the call returns the mapping that sends every requested package to false.
C3_MissingFieldIsEmpty ==
    (ManifestParsed /\ \E f \in SelectedFields : f \notin DOMAIN fs[pkgJson].json)
        => result = Return(AllFalse)

----------------------------------------------------------------------------
(* C4 *)

\* C4: for a located manifest with both dependencies and devDependencies, the mapping
\* returned has exactly the distinct requested names as keys, and sends a name to true
\* exactly when it is a key of a field the options select.
C4_MembershipInSelectedFields ==
    (ManifestParsed /\ {"dependencies", "devDependencies"} \subseteq DOMAIN fs[pkgJson].json)
        => /\ result.threw = ""
           /\ DOMAIN result.value = Requested
           /\ \A p \in Requested :
                 result.value[p] <=> \E f \in SelectedFields : p \in Range(fs[pkgJson].json[f])

C4_Witness ==
    /\ ManifestParsed /\ call.fn = "checkDeps"
    /\ {"dependencies", "devDependencies"} \subseteq DOMAIN fs[pkgJson].json
    /\ call.packages.items = <<bar, bar>>
    /\ bar \in Range(fs[pkgJson].json["devDependencies"])
    /\ result = Return([p \in {bar} |-> FALSE])

----------------------------------------------------------------------------
(* C5 *)

\* C5: checkDeps([]) returns the empty mapping for every manifest that is located,
\* whatever fields it has or lacks.
C5_EmptyListEmptyMapping ==
    (ManifestParsed /\ call.fn = "checkDeps" /\ call.packages.items = <<>>)
        => result = Return(<<>>)

----------------------------------------------------------------------------
(* C6 *)

\* the words of a string, cut at every space
RECURSIVE SplitAtSpaces(_)
SplitAtSpaces(str) ==
    IF \A i \in 1..Len(str) : str[i] # " " THEN <<str>>
    ELSE LET k == CHOOSE i \in 1..Len(str) :
                      str[i] = " " /\ \A j \in 1..(i - 1) : str[j] # " "
         IN <<SubSeq(str, 1, k - 1)>> \o SplitAtSpaces(SubSeq(str, k + 1, Len(str)))

CommandArgument(cmd) == SubSeq(cmd, Len(npmCmd) + 1, Len(cmd))

\* C6: a call of installSyncSaveDev runs npm exactly once, also when npm fails, with
\* one "npm i --save-dev" command whose argument is the requested names separated by
\* single spaces in input order; a string s gives the command the list [s] gives.
C6_OneInstallCommand ==
    (call.fn = "installSyncSaveDev" /\ pc = "done")
        => /\ Len(execLog) = 1
           /\ SubSeq(execLog[1], 1, Len(npmCmd)) = npmCmd
           /\ call.packages.isArray =>
                IF call.packages.items = <<>>
                THEN CommandArgument(execLog[1]) = <<>>
                ELSE SplitAtSpaces(CommandArgument(execLog[1])) = call.packages.items
           /\ ~call.packages.isArray =>
                /\ CommandArgument(execLog[1]) = call.packages.str
                /\ execLog[1] = installCommand(Arr(<<call.packages.str>>))

C6_Witness ==
    /\ call.fn = "installSyncSaveDev" /\ pc = "done"
    /\ call.packages = Arr(<<foo, bar>>)
    /\ result.threw = "ExecError"
    /\ execLog = <<npmCmd \o <<"f", "o", "o", " ", "b", "a", "r">> >>

----------------------------------------------------------------------------
(* C7 *)

\* the directories whose package.json the ascent from c looks at
Searched(c) == IF c = root THEN {root} ELSE SelfAndAncestors(c) \ {root}

\* the outcome of check as a function of the filesystem and of the arguments alone
Outcome(fsys, c, packages, opt) ==
    LET having == {d \in Searched(c) : manifestOf(d) \in DOMAIN fsys}
        near == CHOOSE d \in having : \A e \in having : Len(e) <= Len(d)
        text == fsys[manifestOf(near)]
        fields == {f \in {"dependencies", "devDependencies"} : opt[f]}
    IN IF having = {} THEN Throw(ManifestNotFound)
       ELSE IF ~text.parses THEN Throw("SyntaxError")
       ELSE IF \E f \in fields : f \notin DOMAIN text.json THEN Throw("TypeError")
       ELSE Return([p \in Range(packages) |-> \E f \in fields : p \in Range(text.json[f])])

\* C7: nothing is kept between calls: whatever calls, manifest creations, deletions
\* and changes came before, the outcome of a call of checkDeps / checkDevDeps is a
\* function of the filesystem at the call and of its arguments.
C7_OutcomeFromCurrentFilesystem ==
    (InCheck /\ pc = "done")
        => result = Outcome(fs, cwd, call.packages.items, call.opt)

\* an earlier call located a manifest that is gone by now, and this call answers from
\* another one
C7_Witness ==
    /\ InCheck /\ pc = "done"
    /\ prevLoc # null /\ prevLoc \notin DOMAIN fs
    /\ pkgJson # null /\ result.threw = ""

----------------------------------------------------------------------------
(* C8 *)

\* C8: a path returned by findPackageJson is d/package.json for the start directory
\* or an ancestor d of it, the file exists, and no directory on the way from the start
\* directory up to d, d excluded, has a package.json.
C8_ReturnedPathIsNearestExisting ==
    (InCheck /\ Returned /\ pkgJson # null)
        => \E d \in SelfAndAncestors(cwd) :
              /\ pkgJson = manifestOf(d)
              /\ pkgJson \in DOMAIN fs
              /\ \A e \in SelfAndAncestors(cwd) : Len(e) > Len(d) => ~HasManifest(e)

C8_Witness ==
    /\ InCheck /\ pc = "found"
    /\ Len(cwd) >= 2
    /\ pkgJson = manifestOf(SubSeq(cwd, 1, Len(cwd) - 1))
    /\ HasManifest(root)

----------------------------------------------------------------------------
(* C9 *)

NoRepeat(seq) == \A i, j \in 1..Len(seq) : seq[i] = seq[j] => i = j

C9_TestsBounded == NoRepeat(tested) /\ Len(tested) <= Len(cwd) + 1

\* a pass that does not return moves dir to its strict parent, or leaves it at the root
C9_PassAscends ==
    (pc = "body" /\ pc' = "while")
        => \/ dir # root /\ dir' = SubSeq(dir, 1, Len(dir) - 1)
           \/ dir = root /\ dir' = root

\* after a pass that started at the root the loop is left
C9_RootPassExits ==
    (pc = "while" /\ tested # <<>> /\ tested[Len(tested)] = manifestOf(root)) => pc' # "body"

\* C9: the ascent of findPackageJson terminates from every start directory: a pass
\* that does not return moves dir to its strict parent or leaves it at the root and
\* then exits, no directory is tested twice, and there are at most depth + 1 tests.
C9_AscentTerminates ==
    /\ []C9_TestsBounded
    /\ [][C9_PassAscends /\ C9_RootPassExits]_vars
    /\ (pc \in {"body", "while"}) ~> (pc = "found")

C9_Witness ==
    /\ pc = "found" /\ pkgJson = null
    /\ Len(cwd) = MaxDepth
    /\ Len(tested) = MaxDepth

----------------------------------------------------------------------------
(* C10 *)

\* C10: a call of checkDeps / checkDevDeps, however it ends, leaves the filesystem as
\* it is and never runs npm; npm is run by installSyncSaveDev alone, which neither
\* looks for the manifest nor reads it.
C10_CheckReadsOnly ==
    [][/\ (call.fn \in CheckFns \/ call'.fn \in CheckFns)
            => (fs' = fs /\ execLog = <<>> /\ execLog' = <<>>)
       /\ (execLog' # execLog /\ execLog' # <<>>)
            => (call'.fn = "installSyncSaveDev" /\ tested' = <<>> /\ reads' = <<>>)
       /\ call'.fn = "installSyncSaveDev" => (fs' = fs /\ tested' = <<>> /\ reads' = <<>>)]_vars

\* a call of checkDevDeps that read the manifest and failed on it
C10_Witness ==
    /\ call.fn = "checkDevDeps" /\ pc = "done"
    /\ result.threw = "TypeError"
    /\ reads = <<pkgJson>> /\ execLog = <<>>

====
